---------------------------- MODULE Spec2Model ----------------------------
(***************************************************************************)
(* Model of src/raw.rs of hematite_nbt: the little-endian codec of the     *)
(* bare NBT values (scalars, strings, arrays), the header reader and the   *)
(* container terminator.                                                   *)
(*                                                                         *)
(* A byte is a number in 0..255.  The stream is one sequence of bytes: a   *)
(* writer appends to it as its sink (io::Write into a Vec<u8>), and a      *)
(* reader is then given the same bytes as its source (io::Read), with a    *)
(* cursor pos: the number of bytes already consumed.                       *)
(*                                                                         *)
(* The checker's integers are 32 bits wide, so a 64-bit quantity is held   *)
(* as its four base-2^16 digits, least significant first:                  *)
(*   i64   <<d0, d1, d2, d3>>  d0..d2 in 0..65535, d3 in -32768..32767,    *)
(*         the value being d0 + d1*2^16 + d2*2^32 + d3*2^48;               *)
(*   usize <<d0, d1, d2, d3>>  every digit in 0..65535.                    *)
(* A float is held by the fields of its IEEE-754 bit pattern.              *)
(* A Rust str is held as what it is: a well-formed UTF-8 byte sequence.    *)
(***************************************************************************)
EXTENDS Integers, Sequences, FiniteSets, TLC

(***************************************************************************)
(* Bounds of the model.                                                    *)
(***************************************************************************)
\* longest short text written, in characters
MaxChars == 2

\* longest array written, in elements
MaxArrLen == 2

\* longest hand-made (possibly malformed) source, in bytes
MaxRawLen == 4

\* largest number of bytes a short read of the source delivers
MaxShort == 2

\* number of short reads a source delivers before it delivers in full
MaxShortReads == 2

(***************************************************************************)
(* Widths.                                                                 *)
(***************************************************************************)
\* `value.len() as u16` keeps the length modulo 2^16
U16Modulus == 65536

Byte == 0..255

Min(a, b) == IF a < b THEN a ELSE b

(***************************************************************************)
(* byteorder's LittleEndian writers: the two's complement pattern of the   *)
(* value, least significant byte first.  v % 256 is `v as u8` and          *)
(* v \div 256 (which floors) is the arithmetic shift `v >> 8`.             *)
(***************************************************************************)
\* (mutant) the pattern written most significant byte first
RECURSIVE BEBytes(_, _)
BEBytes(v, w) ==
    IF w = 0 THEN << >> ELSE BEBytes(v \div 256, w - 1) \o <<v % 256>>

RECURSIVE LEBytes(_, _)
LEBytes(v, w) ==
    IF w = 0 THEN << >> ELSE <<v % 256>> \o LEBytes(v \div 256, w - 1)

\* write_i8 / write_u8: one byte
WriteI8(v) == LEBytes(v, 1)

\* (mutant) the 16-bit value written most significant byte first
WriteI16BigEndian(v) == BEBytes(v, 2)

\* write_i16::<LittleEndian> / write_u16::<LittleEndian>
WriteI16(v) == LEBytes(v, 2)

\* write_i32::<LittleEndian>
WriteI32(v) == LEBytes(v, 4)

\* write_i64::<LittleEndian>, digit by digit
WriteI64(v) ==
    LEBytes(v[1], 2) \o LEBytes(v[2], 2) \o LEBytes(v[3], 2) \o LEBytes(v[4], 2)

\* f32::to_bits as the two 16-bit halves of the u32, low half first
F32Bits(f) ==
    << f.mant % 65536, f.sign * 32768 + f.exp * 128 + (f.mant \div 65536) >>

\* write_f32::<LittleEndian>: the bit pattern written as a u32
WriteF32(f) == LEBytes(F32Bits(f)[1], 2) \o LEBytes(F32Bits(f)[2], 2)

\* f64::to_bits as the four 16-bit digits of the u64
F64Bits(f) ==
    << f.mant[1], f.mant[2], f.mant[3],
       f.sign * 32768 + f.exp * 16 + f.mant[4] >>

\* write_f64::<LittleEndian>: the bit pattern written as a u64
WriteF64(f) == WriteI64(F64Bits(f))

(***************************************************************************)
(* byteorder's LittleEndian readers.  FromLE folds the bytes from the most *)
(* significant one down; a signed read takes the top byte as an i8.        *)
(***************************************************************************)
RECURSIVE HornerBE(_, _, _)
HornerBE(b, i, acc) ==
    IF i > Len(b) THEN acc ELSE HornerBE(b, i + 1, acc * 256 + b[i])

\* (mutant) the bytes read most significant byte first
FromBE(b, signed) ==
    LET top == IF signed /\ b[1] >= 128 THEN b[1] - 256 ELSE b[1]
    IN  HornerBE(b, 2, top)

RECURSIVE HornerLE(_, _, _)
HornerLE(b, i, acc) ==
    IF i = 0 THEN acc ELSE HornerLE(b, i - 1, acc * 256 + b[i])

FromLE(b, signed) ==
    LET n   == Len(b)
        top == IF signed /\ b[n] >= 128 THEN b[n] - 256 ELSE b[n]
    IN  HornerLE(b, n - 1, top)

DecodeI8(b)  == FromLE(b, TRUE)
DecodeI16(b) == FromLE(b, TRUE)
DecodeU16(b) == FromLE(b, FALSE)
DecodeI32(b) == FromLE(b, TRUE)

DecodeI64(b) ==
    << FromLE(SubSeq(b, 1, 2), FALSE), FromLE(SubSeq(b, 3, 4), FALSE),
       FromLE(SubSeq(b, 5, 6), FALSE), FromLE(SubSeq(b, 7, 8), TRUE) >>

\* read_u32 then f32::from_bits
DecodeF32(b) ==
    LET lo == FromLE(SubSeq(b, 1, 2), FALSE)
        hi == FromLE(SubSeq(b, 3, 4), FALSE)
    IN  [sign |-> hi \div 32768,
         exp  |-> (hi % 32768) \div 128,
         mant |-> (hi % 128) * 65536 + lo]

\* read_u64 then f64::from_bits
DecodeF64(b) ==
    LET hi == FromLE(SubSeq(b, 7, 8), FALSE)
    IN  [sign |-> hi \div 32768,
         exp  |-> (hi % 32768) \div 16,
         mant |-> << FromLE(SubSeq(b, 1, 2), FALSE),
                     FromLE(SubSeq(b, 3, 4), FALSE),
                     FromLE(SubSeq(b, 5, 6), FALSE), hi % 16 >>]

\* the width in bytes of a scalar kind
Width(kind) ==
    CASE kind = "byte" -> 1
      [] kind = "short" -> 2
      [] kind \in {"int", "float"} -> 4
      [] kind \in {"long", "double"} -> 8

\* the byteorder writer of a scalar kind
Encode(kind, v) ==
    CASE kind = "byte" -> WriteI8(v)
      [] kind = "short" -> WriteI16(v)
      [] kind = "int" -> WriteI32(v)
      [] kind = "long" -> WriteI64(v)
      [] kind = "float" -> WriteF32(v)
      [] kind = "double" -> WriteF64(v)

\* the byteorder reader of a scalar kind, applied to the bytes read
Decode(kind, b) ==
    CASE kind = "byte" -> DecodeI8(b)
      [] kind = "short" -> DecodeI16(b)
      [] kind = "int" -> DecodeI32(b)
      [] kind = "long" -> DecodeI64(b)
      [] kind = "float" -> DecodeF32(b)
      [] kind = "double" -> DecodeF64(b)

(***************************************************************************)
(* Text.  `value.as_bytes()` is the UTF-8 byte sequence a str consists of; *)
(* String::from_utf8 accepts a byte vector iff it is well-formed UTF-8     *)
(* (Unicode table 3-7) and then owns exactly those bytes.                  *)
(***************************************************************************)
\* char::encode_utf8 of a Unicode scalar value
EncodeUtf8(c) ==
    IF c < 128 THEN <<c>>
    ELSE IF c < 2048 THEN <<192 + (c \div 64), 128 + (c % 64)>>
    ELSE IF c < 65536
         THEN <<224 + (c \div 4096), 128 + ((c \div 64) % 64), 128 + (c % 64)>>
         ELSE <<240 + (c \div 262144), 128 + ((c \div 4096) % 64),
                128 + ((c \div 64) % 64), 128 + (c % 64)>>

RECURSIVE Utf8Of(_)
Utf8Of(cs) ==
    IF cs = << >> THEN << >> ELSE EncodeUtf8(Head(cs)) \o Utf8Of(Tail(cs))

IsCont(x) == x >= 128 /\ x <= 191

\* length of the sequence a lead byte opens; 0 for a byte that opens none
Utf8Width(x) ==
    IF x < 128 THEN 1
    ELSE IF x >= 194 /\ x <= 223 THEN 2
    ELSE IF x >= 224 /\ x <= 239 THEN 3
    ELSE IF x >= 240 /\ x <= 244 THEN 4
    ELSE 0

\* the range of the second byte after lead byte x
SecondOk(x, y) ==
    IF x = 224 THEN y >= 160 /\ y <= 191
    ELSE IF x = 237 THEN y >= 128 /\ y <= 159
    ELSE IF x = 240 THEN y >= 144 /\ y <= 191
    ELSE IF x = 244 THEN y >= 128 /\ y <= 143
    ELSE IsCont(y)

\* every byte is ASCII, or opens a complete sequence, or continues one
\* opened at most three bytes before it
Utf8Valid(b) ==
    \A i \in 1..Len(b) :
        \/ b[i] < 128
        \/ IF IsCont(b[i])
           THEN \E k \in 1..3 :
                   /\ i - k >= 1
                   /\ Utf8Width(b[i - k]) > k
                   /\ \A j \in 1..(k - 1) : IsCont(b[i - j])
           ELSE LET w == Utf8Width(b[i])
                IN  /\ w > 1
                    /\ i + w - 1 <= Len(b)
                    /\ SecondOk(b[i], b[i + 1])
                    /\ \A j \in 2..(w - 1) : IsCont(b[i + j])

(***************************************************************************)
(* Results.  `at` is the cursor after a success, and the cursor at which   *)
(* the failing read began after a failure.  An error is named by the       *)
(* failure `From::from` converts, or by the Error variant raw.rs names.    *)
(***************************************************************************)
NoRet == [ok |-> FALSE, val |-> << >>, err |-> "pending", at |-> 0]

RdOk(v, p) == [ok |-> TRUE, val |-> v, err |-> "none", at |-> p]

RdErr(e, p) == [ok |-> FALSE, val |-> << >>, err |-> e, at |-> p]

UnexpectedEof == "io::ErrorKind::UnexpectedEof"

IncompleteNbtValue == "Error::IncompleteNbtValue"

InvalidUtf8 == "FromUtf8Error"

CapacityOverflowPanic == "panic: capacity overflow"

\* Read::read_exact of w bytes at cursor p (what the byteorder readers call)
ReadExact(s, p, w) ==
    IF p + w <= Len(s) THEN RdOk(SubSeq(s, p + 1, p + w), p + w)
    ELSE RdErr(UnexpectedEof, p)

\* (mutant) the bytes taken for text unexamined
Utf8Unchecked(b) == RdOk(b, 0)

\* String::from_utf8(bytes).map_err(From::from)
FromUtf8(b) == IF Utf8Valid(b) THEN RdOk(b, 0) ELSE RdErr(InvalidUtf8, 0)

(***************************************************************************)
(* The writers.  The sink is a Vec<u8>, whose writes always succeed, so    *)
(* each writer returns Ok(()) and is given by the sink it leaves.          *)
(***************************************************************************)
close_nbt(d) == d \o WriteI8(0)

write_bare_byte(d, value) == d \o WriteI8(value)

write_bare_short(d, value) == d \o WriteI16(value)

write_bare_int(d, value) == d \o WriteI32(value)

write_bare_long(d, value) == d \o WriteI64(value)

write_bare_float(d, value) == d \o WriteF32(value)

write_bare_double(d, value) == d \o WriteF64(value)

\* `value.len() as i32`: every length the model can hold is below 2^31,
\* where the cast changes nothing
AsI32(n) == n

\* `value.len() as u16`
AsU16(n) == n % U16Modulus

\* `for &v in value { write v }`: the elements, each written as a scalar
\* of the kind, in order
WriteElems(value, kind) ==
    [k \in 1..(Len(value) * Width(kind)) |->
        Encode(kind, value[((k - 1) \div Width(kind)) + 1])
            [((k - 1) % Width(kind)) + 1]]

write_bare_byte_array(d, value) ==
    d \o WriteI32(AsI32(Len(value))) \o WriteElems(value, "byte")

write_bare_int_array(d, value) ==
    d \o WriteI32(AsI32(Len(value))) \o WriteElems(value, "int")

write_bare_long_array(d, value) ==
    d \o WriteI32(AsI32(Len(value))) \o WriteElems(value, "long")

write_bare_string(d, value) == d \o WriteI16(AsU16(Len(value))) \o value

(***************************************************************************)
(* The scalar readers, at cursor p of source s.                            *)
(***************************************************************************)
ReadScalar(s, p, kind) ==
    LET r == ReadExact(s, p, Width(kind))
    IN  IF r.ok THEN RdOk(Decode(kind, r.val), r.at) ELSE r

read_bare_byte(s, p) == ReadScalar(s, p, "byte")

read_bare_short(s, p) == ReadScalar(s, p, "short")

read_bare_int(s, p) == ReadScalar(s, p, "int")

read_bare_long(s, p) == ReadScalar(s, p, "long")

read_bare_float(s, p) == ReadScalar(s, p, "float")

read_bare_double(s, p) == ReadScalar(s, p, "double")

(***************************************************************************)
(* The array readers.  The i32 count is cast to usize (64 bits: the sign   *)
(* is extended) and handed to Vec::with_capacity, which panics with        *)
(* "capacity overflow" when the buffer would exceed isize::MAX bytes; an   *)
(* allocation of a representable size is taken to succeed.  The result     *)
(* carries the capacity requested.                                         *)
(***************************************************************************)
NoAlloc == << >>

\* `n as usize` of an i32 n
AsUsize(n) ==
    << n % 65536, (n \div 65536) % 65536,
       IF n < 0 THEN 65535 ELSE 0, IF n < 0 THEN 65535 ELSE 0 >>

\* capacity * size_of::<T>() > isize::MAX, for an element size of 1, 4 or 8
CapacityOverflow(capacity, size) == capacity[4] >= 32768 \div size

\* (mutant) the loop run from 1: the last element is left unread
ReadElemsOffByOne(s, p, n, kind) ==
    LET w     == Width(kind)
        c     == IF n = 0 THEN 0 ELSE n - 1
        whole == (Len(s) - p) \div w
    IN  IF whole >= c
        THEN RdOk([i \in 1..c |->
                      Decode(kind, SubSeq(s, p + (i - 1) * w + 1, p + i * w))],
                  p + c * w)
        ELSE RdErr(UnexpectedEof, p + whole * w)

\* `for _ in 0..len { buf.push(read element) }` for a count n that fits:
\* n elements if the source holds them, and a failed read_exact of the
\* first element it does not hold otherwise
ReadElems(s, p, n, kind) ==
    LET w     == Width(kind)
        whole == (Len(s) - p) \div w
    IN  IF whole >= n
        THEN RdOk([i \in 1..n |->
                      Decode(kind, SubSeq(s, p + (i - 1) * w + 1, p + i * w))],
                  p + n * w)
        ELSE RdErr(UnexpectedEof, p + whole * w)

\* an array reader for elements of the scalar kind
ReadArray(s, p, kind) ==
    LET hdr == ReadExact(s, p, 4)
        n   == DecodeI32(hdr.val)
    IN  IF ~hdr.ok THEN [res |-> hdr, cap |-> NoAlloc]
        ELSE IF CapacityOverflow(AsUsize(n), Width(kind))
        THEN [res |-> RdErr(CapacityOverflowPanic, hdr.at),
              cap |-> AsUsize(n)]
        ELSE [res |-> ReadElems(s, hdr.at, n, kind), cap |-> AsUsize(n)]

read_bare_byte_array(s, p) == ReadArray(s, p, "byte")

read_bare_int_array(s, p) == ReadArray(s, p, "int")

read_bare_long_array(s, p) == ReadArray(s, p, "long")

(***************************************************************************)
(* read_bare_string.  HeaderOrName is what the caller returns for the text *)
(* result r: read_bare_string the text itself, emit_next_header the pair   *)
(* (tag, name).                                                            *)
(***************************************************************************)
\* `let len = try!(src.read_u16::<LittleEndian>()) as usize;
\*  if len == 0 { return Ok("".to_string()); }`
StrBegin(s, p) ==
    LET r == ReadExact(s, p, 2)
        n == DecodeU16(r.val)
    IN  IF ~r.ok THEN [done |-> TRUE, res |-> r, n |-> 0]
        ELSE IF n = 0 THEN [done |-> TRUE, res |-> RdOk(<< >>, r.at), n |-> 0]
        ELSE [done |-> FALSE, res |-> RdOk(<< >>, r.at), n |-> n]

\* (mutant) every read offered the whole buffer
WholeBuffer(l, n) == l

\* the length of `&mut bytes[n_read..]`, the most one src.read may deliver,
\* for a buffer of l bytes
ReadRequest(l, n) == l - n

\* (mutant) the bytes gathered so far returned as the text
ShortStringOnExhausted(b, n, p) ==
    IF Utf8Valid(SubSeq(b, 1, n)) THEN RdOk(SubSeq(b, 1, n), p)
    ELSE RdErr(InvalidUtf8, p)

\* `0 => return Err(Error::IncompleteNbtValue)`
OnExhausted(b, n, p) == RdErr(IncompleteNbtValue, p)

\* the sizes a read of at most m > 0 bytes may deliver: all m, or while the
\* source still makes short reads, 1..MaxShort of them
ReadSizes(m, used) ==
    {m} \cup (IF used < MaxShortReads THEN 1..Min(MaxShort, m - 1) ELSE {})

HeaderOrName(kind, t, r) ==
    IF kind = "header" /\ r.ok THEN RdOk(<<t, r.val>>, r.at) ELSE r

(***************************************************************************)
(* Inputs.                                                                 *)
(***************************************************************************)
I8s == {-128, -1, 0, 1, 3, 127}

I16s == {-32768, -1, 0, 1, 258, 32767}

I32s == {-2147483647 - 1, -1, 0, 1, 16909060, 2147483647}

\* 0, 1, -1, i64::MIN, i64::MAX, 0x0102030405060708
I64s ==
    { <<0, 0, 0, 0>>, <<1, 0, 0, 0>>, <<65535, 65535, 65535, -1>>,
      <<0, 0, 0, -32768>>, <<65535, 65535, 65535, 32767>>,
      <<1800, 1286, 772, 258>> }

\* +0, -0, 1.0, -infinity, a quiet NaN, a signalling NaN with a payload,
\* the smallest subnormal
F32s ==
    { [sign |-> 0, exp |-> 0, mant |-> 0], [sign |-> 1, exp |-> 0, mant |-> 0],
      [sign |-> 0, exp |-> 127, mant |-> 0],
      [sign |-> 1, exp |-> 255, mant |-> 0],
      [sign |-> 0, exp |-> 255, mant |-> 4194304],
      [sign |-> 1, exp |-> 255, mant |-> 66051],
      [sign |-> 0, exp |-> 0, mant |-> 1] }

F64s ==
    { [sign |-> 0, exp |-> 0, mant |-> <<0, 0, 0, 0>>],
      [sign |-> 1, exp |-> 0, mant |-> <<0, 0, 0, 0>>],
      [sign |-> 0, exp |-> 1023, mant |-> <<0, 0, 0, 0>>],
      [sign |-> 1, exp |-> 2047, mant |-> <<0, 0, 0, 0>>],
      [sign |-> 0, exp |-> 2047, mant |-> <<0, 0, 0, 8>>],
      [sign |-> 1, exp |-> 2047, mant |-> <<1541, 1027, 513, 1>>],
      [sign |-> 0, exp |-> 0, mant |-> <<1, 0, 0, 0>>] }

SeqsUpTo(S, n) == UNION {[1..k -> S] : k \in 0..n}

ByteArrays == SeqsUpTo({-1, 1}, MaxArrLen)

IntArrays == SeqsUpTo({-1, 16909060}, MaxArrLen)

LongArrays ==
    SeqsUpTo({<<65535, 65535, 65535, -1>>, <<1800, 1286, 772, 258>>}, MaxArrLen)

\* 'A', e-acute, the euro sign, U+1F600: one to four bytes of UTF-8
Chars == {65, 233, 8364, 128512}

ShortStrings == {Utf8Of(cs) : cs \in SeqsUpTo(Chars, MaxChars)}

\* texts of 65535 and of 65536 bytes: the longest a u16 counts, and one more
LongStrings == {[i \in 1..n |-> 65] : n \in {U16Modulus - 1, U16Modulus}}

Strings == ShortStrings \cup LongStrings

\* what the caller left in the sink: nothing, an end tag, the tag of an int
Prefixes == {<< >>, <<0>>, <<3>>}

RawBytes == {0, 2, 65, 169, 195, 255}

RawSources == SeqsUpTo(RawBytes, MaxRawLen)

(***************************************************************************)
(* State.                                                                  *)
(*   pc      "idle", "filled" (the stream holds what is to be read),       *)
(*           "strloop" (inside the read loop of read_bare_string), "done"  *)
(*   pre     what the sink held before the write                           *)
(*   dst     the stream                                                    *)
(*   wop,arg the writer called and its argument ("raw": no writer of this  *)
(*           module made the stream)                                       *)
(*   pos     the cursor of the source                                      *)
(*   rop,ret the reader called and its result                              *)
(*   tag     the tag byte emit_next_header read                            *)
(*   len, bytes, n_read   the locals of read_bare_string; of the buffer    *)
(*           `bytes` (len bytes, all 0 at first) the state holds the part  *)
(*           the reads have filled                                         *)
(*   reads   the calls of src.read made; req, got: the last call's         *)
(*           buffer length and return value; shorts: the short reads made  *)
(*   cap     the capacity handed to Vec::with_capacity                     *)
(***************************************************************************)
VARIABLES pc, pre, dst, wop, arg, pos, rop, ret, tag,
          len, bytes, n_read, reads, req, got, shorts, cap

vars == <<pc, pre, dst, wop, arg, pos, rop, ret, tag,
          len, bytes, n_read, reads, req, got, shorts, cap>>

Init ==
    /\ pc = "idle"
    /\ pre \in Prefixes
    /\ dst = pre
    /\ wop = "none"
    /\ arg = << >>
    /\ pos = 0
    /\ rop = "none"
    /\ ret = NoRet
    /\ tag = 0
    /\ len = 0
    /\ bytes = << >>
    /\ n_read = 0
    /\ reads = 0
    /\ req = 0
    /\ got = 0
    /\ shorts = 0
    /\ cap = NoAlloc

\* the source a reader is given: the bytes of the stream
src == dst

readerVars ==
    <<pos, rop, ret, tag, len, bytes, n_read, reads, req, got, shorts, cap>>

\* a writer called with `value` returns Ok(()), leaving the sink d
Wrote(kind, value, d) ==
    /\ pc' = "filled"
    /\ wop' = kind
    /\ arg' = value
    /\ dst' = d
    /\ UNCHANGED pre
    /\ UNCHANGED readerVars

CloseNbt ==
    /\ pc = "idle"
    /\ Wrote("close", << >>, close_nbt(dst))

WriteBareByte ==
    /\ pc = "idle"
    /\ \E v \in I8s : Wrote("byte", v, write_bare_byte(dst, v))

WriteBareShort ==
    /\ pc = "idle"
    /\ \E v \in I16s : Wrote("short", v, write_bare_short(dst, v))

WriteBareInt ==
    /\ pc = "idle"
    /\ \E v \in I32s : Wrote("int", v, write_bare_int(dst, v))

WriteBareLong ==
    /\ pc = "idle"
    /\ \E v \in I64s : Wrote("long", v, write_bare_long(dst, v))

WriteBareFloat ==
    /\ pc = "idle"
    /\ \E v \in F32s : Wrote("float", v, write_bare_float(dst, v))

WriteBareDouble ==
    /\ pc = "idle"
    /\ \E v \in F64s : Wrote("double", v, write_bare_double(dst, v))

WriteBareByteArray ==
    /\ pc = "idle"
    /\ \E v \in ByteArrays :
          Wrote("byte_array", v, write_bare_byte_array(dst, v))

WriteBareIntArray ==
    /\ pc = "idle"
    /\ \E v \in IntArrays :
          Wrote("int_array", v, write_bare_int_array(dst, v))

WriteBareLongArray ==
    /\ pc = "idle"
    /\ \E v \in LongArrays :
          Wrote("long_array", v, write_bare_long_array(dst, v))

WriteBareString ==
    /\ pc = "idle"
    /\ \E v \in Strings : Wrote("string", v, write_bare_string(dst, v))

\* a stream that no writer of this module made
LoadRaw ==
    /\ pc = "idle"
    /\ pre = << >>
    /\ \E s \in RawSources : dst' = s
    /\ pc' = "filled"
    /\ wop' = "raw"
    /\ UNCHANGED <<pre, arg>>
    /\ UNCHANGED readerVars

\* where a failed read leaves the cursor: read_exact leaves unspecified how
\* many bytes it consumed before it met the end of the source
FailPos(r) ==
    IF r.ok THEN {r.at}
    ELSE IF r.err = UnexpectedEof THEN {r.at, Len(src)}
    ELSE {r.at}

\* a reader returns r
Returns(kind, r, c, t) ==
    /\ pc' = "done"
    /\ rop' = kind
    /\ ret' = r
    /\ cap' = c
    /\ tag' = t
    /\ \E q \in FailPos(r) : pos' = q
    /\ UNCHANGED <<pre, dst, wop, arg>>

ReadBareByte ==
    /\ pc = "filled"
    /\ Returns("byte", read_bare_byte(src, pos), NoAlloc, tag)
    /\ UNCHANGED <<len, bytes, n_read, reads, req, got, shorts>>

ReadBareShort ==
    /\ pc = "filled"
    /\ Returns("short", read_bare_short(src, pos), NoAlloc, tag)
    /\ UNCHANGED <<len, bytes, n_read, reads, req, got, shorts>>

ReadBareInt ==
    /\ pc = "filled"
    /\ Returns("int", read_bare_int(src, pos), NoAlloc, tag)
    /\ UNCHANGED <<len, bytes, n_read, reads, req, got, shorts>>

ReadBareLong ==
    /\ pc = "filled"
    /\ Returns("long", read_bare_long(src, pos), NoAlloc, tag)
    /\ UNCHANGED <<len, bytes, n_read, reads, req, got, shorts>>

ReadBareFloat ==
    /\ pc = "filled"
    /\ Returns("float", read_bare_float(src, pos), NoAlloc, tag)
    /\ UNCHANGED <<len, bytes, n_read, reads, req, got, shorts>>

ReadBareDouble ==
    /\ pc = "filled"
    /\ Returns("double", read_bare_double(src, pos), NoAlloc, tag)
    /\ UNCHANGED <<len, bytes, n_read, reads, req, got, shorts>>

ReadBareByteArray ==
    /\ pc = "filled"
    /\ LET a == read_bare_byte_array(src, pos)
       IN  Returns("byte_array", a.res, a.cap, tag)
    /\ UNCHANGED <<len, bytes, n_read, reads, req, got, shorts>>

ReadBareIntArray ==
    /\ pc = "filled"
    /\ LET a == read_bare_int_array(src, pos)
       IN  Returns("int_array", a.res, a.cap, tag)
    /\ UNCHANGED <<len, bytes, n_read, reads, req, got, shorts>>

ReadBareLongArray ==
    /\ pc = "filled"
    /\ LET a == read_bare_long_array(src, pos)
       IN  Returns("long_array", a.res, a.cap, tag)
    /\ UNCHANGED <<len, bytes, n_read, reads, req, got, shorts>>

\* read_bare_string up to its first src.read, called at cursor p
EnterString(kind, t, p) ==
    LET b == StrBegin(src, p)
    IN  IF b.done
        THEN /\ Returns(kind, HeaderOrName(kind, t, b.res), NoAlloc, t)
             /\ UNCHANGED <<len, bytes, n_read, reads, req, got, shorts>>
        ELSE /\ pc' = "strloop"
             /\ rop' = kind
             /\ tag' = t
             /\ len' = b.n
             /\ bytes' = << >>
             /\ n_read' = 0
             /\ pos' = b.res.at
             /\ UNCHANGED <<pre, dst, wop, arg, ret, reads, req, got,
                            shorts, cap>>

ReadBareString ==
    /\ pc = "filled"
    /\ EnterString("string", tag, pos)

\* emit_next_header up to the first src.read of the name
EmitNextHeader ==
    /\ pc = "filled"
    /\ LET r == ReadExact(src, pos, 1)
           t == r.val[1]
       IN  IF ~r.ok
           THEN /\ Returns("header", r, NoAlloc, tag)
                /\ UNCHANGED <<len, bytes, n_read, reads, req, got, shorts>>
           ELSE IF t = 0
           THEN /\ Returns("header", RdOk(<<t, << >> >>, r.at), NoAlloc, t)
                /\ UNCHANGED <<len, bytes, n_read, reads, req, got, shorts>>
           ELSE EnterString("header", t, r.at)

\* one turn of `while n_read < bytes.len()`: one src.read, and when it
\* filled the buffer, String::from_utf8
StringRead ==
    /\ pc = "strloop"
    /\ n_read < len
    /\ LET want == ReadRequest(len, n_read)
           m    == Min(want, Len(src) - pos)
       IN  /\ reads' = reads + 1
           /\ req' = want
           /\ IF m = 0
              THEN /\ got' = 0
                   /\ Returns(rop, OnExhausted(bytes, n_read, pos), cap, tag)
                   /\ UNCHANGED <<len, bytes, n_read, shorts>>
              ELSE \E k \in ReadSizes(m, shorts) :
                     /\ got' = k
                     /\ shorts' = IF k < m THEN shorts + 1 ELSE shorts
                     /\ n_read' = n_read + k
                     /\ bytes' = bytes \o SubSeq(src, pos + 1, pos + k)
                     /\ len' = len
                     /\ IF n_read + k < len
                        THEN /\ pc' = "strloop"
                             /\ pos' = pos + k
                             /\ UNCHANGED <<pre, dst, wop, arg, rop, ret, tag,
                                            cap>>
                        ELSE Returns(rop,
                                     HeaderOrName(rop, tag,
                                         [FromUtf8(bytes') EXCEPT !.at = pos + k]),
                                     cap, tag)

Next ==
    \/ LoadRaw
    \/ CloseNbt
    \/ WriteBareByte
    \/ WriteBareShort
    \/ WriteBareInt
    \/ WriteBareLong
    \/ WriteBareFloat
    \/ WriteBareDouble
    \/ WriteBareByteArray
    \/ WriteBareIntArray
    \/ WriteBareLongArray
    \/ WriteBareString
    \/ ReadBareByte
    \/ ReadBareShort
    \/ ReadBareInt
    \/ ReadBareLong
    \/ ReadBareFloat
    \/ ReadBareDouble
    \/ ReadBareByteArray
    \/ ReadBareIntArray
    \/ ReadBareLongArray
    \/ ReadBareString
    \/ EmitNextHeader
    \/ StringRead

Spec == Init /\ [][Next]_vars

(***************************************************************************)
(* Properties.                                                             *)
(***************************************************************************)
ScalarKinds == {"byte", "short", "int", "long", "float", "double"}

ArrayKinds == {"byte_array", "int_array", "long_array"}

\* a reader of kind k has returned, reading from its first byte what the
\* writer of kind k put into an empty sink
RoundTrip(k) == pc = "done" /\ wop = k /\ rop = k /\ pre = << >>

\* what the sink gained from the write
Appended == SubSeq(dst, Len(pre) + 1, Len(dst))

\* C1: a text of at most 65535 bytes of UTF-8 (the empty text included),
\* written by write_bare_string into an empty sink and read back by
\* read_bare_string from the bytes produced, comes back exactly: the read
\* succeeds and returns the text written.
C1_StringRoundTrip ==
    (RoundTrip("string") /\ Len(arg) <= U16Modulus - 1)
        => (ret.ok /\ ret.val = arg)

\* C1 witness: a text of a two-byte and a three-byte character came back
\* after more than one read of the source.
C1_Witness ==
    /\ RoundTrip("string")
    /\ arg = <<195, 169, 226, 130, 172>>
    /\ reads > 1
    /\ ret.ok
    /\ ret.val = arg

\* C2: an array of bytes, ints or longs (the empty array included), written
\* by its writer and read back by its reader from the bytes produced, comes
\* back with the same length and the same elements in the same order.
C2_ArrayRoundTrip ==
    \A k \in ArrayKinds :
        RoundTrip(k)
            => /\ ret.ok
               /\ Len(ret.val) = Len(arg)
               /\ \A i \in 1..Len(arg) : ret.val[i] = arg[i]

\* C2 witness: an array of longs with two different elements came back.
C2_Witness ==
    /\ RoundTrip("long_array")
    /\ Len(arg) >= 2
    /\ arg[1] # arg[2]
    /\ ret.ok
    /\ ret.val = arg

\* C3: a scalar of each of the six kinds, written by its writer and read
\* back by its reader from the bytes produced, comes back exactly; a float
\* comes back with the bit pattern written (sign, exponent and mantissa
\* fields), NaN and signed zero included.
C3_ScalarRoundTrip ==
    \A k \in ScalarKinds : RoundTrip(k) => (ret.ok /\ ret.val = arg)

\* C3 witness: a negative NaN with a payload came back bit for bit.
C3_Witness ==
    /\ RoundTrip("float")
    /\ arg.sign = 1
    /\ arg.exp = 255
    /\ arg.mant = 66051
    /\ ret.ok
    /\ ret.val = arg

\* the j-th base-2^16 digit of the two's complement pattern of integer v:
\* floor(v / 2^(16j)) mod 2^16
Digit16(kind, v, j) ==
    IF kind = "long" THEN v[j + 1] % 65536
    ELSE IF j = 0 THEN v % 65536
    ELSE (v \div 65536) % 65536

\* floor((v mod 2^(8w)) / 2^(8k)) mod 256 for k < w
PatternByte(kind, v, k) ==
    (Digit16(kind, v, k \div 2) \div (IF k % 2 = 0 THEN 1 ELSE 256)) % 256

IntWidth(kind) ==
    IF kind = "byte" THEN 1 ELSE IF kind = "short" THEN 2
    ELSE IF kind = "int" THEN 4 ELSE 8

\* C4: writing a signed integer of w bytes (byte, short, int, long) appends
\* exactly w bytes to the sink, and the k-th byte appended (k = 0..w-1) is
\* floor((v mod 2^(8w)) / 2^(8k)) mod 256: two's complement, least
\* significant byte first; write_bare_int(-1) appends FF FF FF FF.
C4_IntegerWireLayout ==
    (pc # "idle" /\ wop \in {"byte", "short", "int", "long"})
        => /\ Len(dst) = Len(pre) + IntWidth(wop)
           /\ SubSeq(dst, 1, Len(pre)) = pre
           /\ \A k \in 0..(IntWidth(wop) - 1) :
                 dst[Len(pre) + k + 1] = PatternByte(wop, arg, k)
           /\ (wop = "int" /\ arg = -1) => Appended = <<255, 255, 255, 255>>

\* C4 witness: write_bare_int(-1) has appended FF FF FF FF.
C4_Witness ==
    /\ pc = "filled"
    /\ wop = "int"
    /\ arg = -1
    /\ Appended = <<255, 255, 255, 255>>

\* the text s in its wire form begins at offset o of the source
WireAt(s, o) ==
    /\ o + 2 + Len(s) <= Len(src)
    /\ SubSeq(src, o + 1, o + 2 + Len(s)) = write_bare_string(<< >>, s)

\* C5: emit_next_header reads one byte as the tag.  For tag 0 (such as the
\* byte close_nbt writes) it returns (0, "") having consumed that one byte
\* only.  For a tag t # 0 followed by the bytes write_bare_string(n)
\* writes, it returns (t, n) having consumed 1 + 2 + byte-length(n) bytes.
C5_HeaderRead ==
    (pc = "done" /\ rop = "header" /\ Len(src) >= 1)
        => /\ src[1] = 0
                => (ret.ok /\ ret.val = <<0, << >> >> /\ pos = 1)
           /\ \A n \in Strings :
                (src[1] # 0 /\ WireAt(n, 1))
                    => /\ ret.ok
                       /\ ret.val = <<src[1], n>>
                       /\ pos = 1 + 2 + Len(n)

\* C5 for the names write_bare_string writes a true length for: those of
\* at most 65535 bytes.  (Checked beside the claim; it holds.)
C5_HeaderRead_NamesThatFit ==
    (pc = "done" /\ rop = "header" /\ Len(src) >= 1)
        => /\ src[1] = 0
                => (ret.ok /\ ret.val = <<0, << >> >> /\ pos = 1)
           /\ \A n \in Strings :
                (src[1] # 0 /\ Len(n) <= U16Modulus - 1 /\ WireAt(n, 1))
                    => /\ ret.ok
                       /\ ret.val = <<src[1], n>>
                       /\ pos = 1 + 2 + Len(n)

\* the i32 count at the head of the source
CountRead == DecodeI32(SubSeq(src, 1, 4))

\* C6: when the count an array reader reads is negative, the reader makes
\* no allocation request derived from it and reads no element.
C6_NegativeCount ==
    (pc = "done" /\ rop \in ArrayKinds /\ Len(src) >= 4 /\ CountRead < 0)
        => (cap = NoAlloc /\ pos = 4)

\* C7: whenever write_bare_string returns Ok, the u16 length it wrote
\* equals the number of payload bytes it wrote after it; a text of more
\* than 65535 bytes is never written with a narrowed length.
C7_StringLengthField ==
    (pc # "idle" /\ wop = "string")
        => /\ Len(Appended) >= 2
           /\ Appended[1] + 256 * Appended[2] = Len(Appended) - 2
           /\ Len(Appended) - 2 = Len(arg)

\* where the text begins in the source: after the tag for emit_next_header
NameAt == IF rop = "header" THEN 1 ELSE 0

\* read_bare_string has been entered, by itself or by emit_next_header
InString ==
    /\ rop \in {"string", "header"}
    /\ rop = "header" => (Len(src) >= 1 /\ src[1] # 0)
    /\ Len(src) >= NameAt + 2

\* the u16 length the source declares
Declared == src[NameAt + 1] + 256 * src[NameAt + 2]

\* the bytes the source holds after the length
Supplied == Len(src) - NameAt - 2

\* C8: when read_bare_string has read a length n > 0 and the source runs
\* out (a read returns 0) before n further bytes, the call fails with
\* Error::IncompleteNbtValue: it returns no text, short or otherwise.
C8_StringTruncation ==
    (pc = "done" /\ InString /\ Declared > 0 /\ Supplied < Declared)
        => (~ret.ok /\ ret.err = IncompleteNbtValue)

\* C8 witness: a source declaring more bytes than the one or more it holds
\* was read, and the read failed with IncompleteNbtValue.
C8_Witness ==
    /\ pc = "done"
    /\ rop = "string"
    /\ InString
    /\ Supplied > 0
    /\ Supplied < Declared
    /\ reads > 1
    /\ ~ret.ok
    /\ ret.err = IncompleteNbtValue

\* C9: when read_bare_string has read a length n > 0 and the source holds
\* n further bytes that are not well-formed UTF-8, the call fails with the
\* error made of the FromUtf8Error, and returns no text.
C9_MalformedText ==
    (/\ pc = "done"
     /\ InString
     /\ Declared > 0
     /\ Supplied >= Declared
     /\ ~Utf8Valid(SubSeq(src, NameAt + 3, NameAt + 2 + Declared)))
        => (~ret.ok /\ ret.err = InvalidUtf8)

\* C9 witness: the payload C3 41 (a two-byte lead followed by 'A') was
\* read in full and refused.
C9_Witness ==
    /\ pc = "done"
    /\ rop = "string"
    /\ src = <<2, 0, 195, 65>>
    /\ n_read = 2
    /\ ~ret.ok
    /\ ret.err = InvalidUtf8

\* the payload of the text in the source
Payload == SubSeq(src, NameAt + 3, NameAt + 2 + Declared)

\* C10: for a declared length n > 0 and a source holding at least n further
\* bytes that it hands out in short reads of 1 or more bytes, the loop of
\* read_bare_string asks each time for exactly the n - n_read bytes still
\* missing, gains at least one byte per read and so makes at most n reads,
\* can always take its next turn, ends with n bytes gathered and
\* 2 + n bytes consumed, and returns what a single read of all n bytes
\* yields: the payload if it is UTF-8.
C10_PartialReads ==
    (/\ pc \in {"strloop", "done"}
     /\ InString
     /\ Declared > 0
     /\ Supplied >= Declared)
        => /\ len = Declared
           /\ n_read <= len
           /\ bytes = SubSeq(src, NameAt + 3, NameAt + 2 + n_read)
           /\ reads <= n_read
           /\ reads > 0 => (req = len - (n_read - got) /\ got >= 1 /\ got <= req)
           /\ pos = NameAt + 2 + n_read
           /\ pc = "strloop" => (n_read < len /\ ENABLED StringRead)
           /\ pc = "done"
                => /\ n_read = len
                   /\ reads <= Declared
                   /\ ret.ok = Utf8Valid(Payload)
                   /\ ret.ok => ret.val = (IF rop = "header"
                                           THEN <<src[1], Payload>>
                                           ELSE Payload)

\* C10 witness: a text of three or more bytes was gathered one byte per
\* read and returned.
C10_Witness ==
    /\ pc = "done"
    /\ rop = "string"
    /\ InString
    /\ Declared >= 3
    /\ reads = Declared
    /\ ret.ok
    /\ ret.val = Payload

=============================================================================
